---- MODULE Spec2Model ----
(***************************************************************************)
(* Model of the invoicePayments Lightning web component                    *)
(* (force-app/main/default/lwc/invoicePayments/invoicePayments.js).        *)
(*                                                                         *)
(* JavaScript strings are sequences of one-character strings, so that      *)
(* parseFloat, padStart, substring, toUpperCase and split are computed on  *)
(* the characters.  JavaScript numbers are records                         *)
(*   [nan, neg, whole, frac]   value = (-1)^neg * (whole + frac/100)       *)
(* (two decimal places, the precision of a currency input).                *)
(***************************************************************************)
EXTENDS Integers, Sequences, FiniteSets, TLC

\* ------------------------------------------------------------------------
\* Bounds of the model
\* ------------------------------------------------------------------------
\* handleSubmitPayment activations that may be suspended at the same time
MaxInFlight == 2
\* handleRefreshData activations that may be suspended at the same time
MaxRefreshInFlight == 1

\* JavaScript null, and null where a string (a sequence of characters) may
\* stand: a sequence that is no string of characters
NULL == "null"
NullString == <<NULL>>

\* ------------------------------------------------------------------------
\* Characters and numbers
\* ------------------------------------------------------------------------
DigitChars == <<"0", "1", "2", "3", "4", "5", "6", "7", "8", "9">>
LowerChars == <<"a", "b", "c", "d", "e", "f", "g", "h", "i", "j", "k", "l", "m",
                "n", "o", "p", "q", "r", "s", "t", "u", "v", "w", "x", "y", "z">>
UpperChars == <<"A", "B", "C", "D", "E", "F", "G", "H", "I", "J", "K", "L", "M",
                "N", "O", "P", "Q", "R", "S", "T", "U", "V", "W", "X", "Y", "Z">>

Range(s) == {s[i] : i \in 1..Len(s)}
IndexOf(c, s) == CHOOSE i \in 1..Len(s) : s[i] = c
IsDigit(c) == c \in Range(DigitChars)
DigitVal(c) == IndexOf(c, DigitChars) - 1

\* a JavaScript number
Num(neg, whole, frac) == [nan |-> FALSE, neg |-> neg, whole |-> whole, frac |-> frac]
NaN == [nan |-> TRUE, neg |-> FALSE, whole |-> 0, frac |-> 0]
Zero == Num(FALSE, 0, 0)
IsZero(a) == ~a.nan /\ a.whole = 0 /\ a.frac = 0

\* a < b on JavaScript numbers; every comparison with NaN is false
NumLess(a, b) ==
    /\ ~a.nan
    /\ ~b.nan
    /\ LET an == a.neg /\ ~IsZero(a)
           bn == b.neg /\ ~IsZero(b)
           magLess(x, y) == x.whole < y.whole \/ (x.whole = y.whole /\ x.frac < y.frac)
       IN  IF an /\ ~bn THEN TRUE
           ELSE IF ~an /\ bn THEN FALSE
           ELSE IF an THEN magLess(b, a)
           ELSE magLess(a, b)
NumEq(a, b) == ~a.nan /\ ~b.nan /\ ~NumLess(a, b) /\ ~NumLess(b, a)
\* a <= b and a > b as JavaScript evaluates them
NumLeq(a, b) == NumLess(a, b) \/ NumEq(a, b)
NumGreater(a, b) == NumLess(b, a)

\* the length of the longest prefix of s whose characters are digits
DigitPrefixLen(s) ==
    CHOOSE k \in 0..Len(s) :
        /\ \A i \in 1..k : IsDigit(s[i])
        /\ (k = Len(s) \/ ~IsDigit(s[k + 1]))

RECURSIVE DigitsToNat(_)
DigitsToNat(ds) ==
    IF ds = <<>> THEN 0
    ELSE 10 * DigitsToNat(SubSeq(ds, 1, Len(ds) - 1)) + DigitVal(ds[Len(ds)])

RECURSIVE SkipSpaces(_)
SkipSpaces(s) == IF s # <<>> /\ Head(s) = " " THEN SkipSpaces(Tail(s)) ELSE s

\* parseFloat(v): v is null or a string.  Leading white space is skipped, an
\* optional sign is read, then the longest decimal literal; NaN when there
\* is none (parseFloat(null) parses the text "null").
parseFloat(v) ==
    IF v = NullString THEN NaN
    ELSE
      LET t == SkipSpaces(v)
          neg == t # <<>> /\ Head(t) = "-"
          u == IF t # <<>> /\ Head(t) \in {"-", "+"} THEN Tail(t) ELSE t
          wl == DigitPrefixLen(u)
          wholeDigits == SubSeq(u, 1, wl)
          rest == SubSeq(u, wl + 1, Len(u))
          hasPoint == rest # <<>> /\ Head(rest) = "."
          afterPoint == IF hasPoint THEN Tail(rest) ELSE <<>>
          fracDigits == SubSeq(afterPoint, 1, DigitPrefixLen(afterPoint))
          frac2 == SubSeq(fracDigits \o <<"0", "0">>, 1, 2)
      IN  IF wholeDigits = <<>> /\ fracDigits = <<>> THEN NaN
          ELSE Num(neg, DigitsToNat(wholeDigits), DigitsToNat(frac2))

\* String(n) for a natural number n
RECURSIVE NatToString(_)
NatToString(n) ==
    IF n < 10 THEN <<DigitChars[n + 1]>>
    ELSE NatToString(n \div 10) \o <<DigitChars[(n % 10) + 1]>>

\* String(Math.floor(x))
FloorString(x) ==
    IF x.nan THEN <<"N", "a", "N">>
    ELSE IF x.neg /\ ~IsZero(x)
         THEN <<"-">> \o NatToString(IF x.frac > 0 THEN x.whole + 1 ELSE x.whole)
         ELSE NatToString(x.whole)

RECURSIVE Repeat(_, _)
Repeat(c, n) == IF n <= 0 THEN <<>> ELSE <<c>> \o Repeat(c, n - 1)

\* s.padStart(n, c)
padStart(s, n, c) == Repeat(c, n - Len(s)) \o s

\* s.substring(0, n)
substring0(s, n) == SubSeq(s, 1, IF Len(s) < n THEN Len(s) ELSE n)

\* s.slice(-n)
sliceLast(s, n) == SubSeq(s, IF Len(s) > n THEN Len(s) - n + 1 ELSE 1, Len(s))

\* s.toUpperCase()
toUpperCase(s) ==
    [i \in 1..Len(s) |->
        IF s[i] \in Range(LowerChars) THEN UpperChars[IndexOf(s[i], LowerChars)] ELSE s[i]]

\* ------------------------------------------------------------------------
\* Configuration of the component
\* ------------------------------------------------------------------------
\* the values of paymentModes
paymentModes == {"Cash", "UPI", "Card", "Bank Transfer"}

\* the values of cardTypeOptions and upiAppNameOptions
cardTypeOptions ==
    { <<"V", "i", "s", "a">>,
      <<"M", "a", "s", "t", "e", "r", "C", "a", "r", "d">>,
      <<"R", "u", "P", "a", "y">>,
      <<"A", "m", "e", "x">>,
      <<"O", "t", "h", "e", "r", "s">> }
upiAppNameOptions ==
    { <<"G", "P", "a", "y">>,
      <<"P", "h", "o", "n", "e", "P", "e">>,
      <<"P", "a", "y", "t", "m">>,
      <<"B", "H", "I", "M">>,
      <<"O", "t", "h", "e", "r">> }

Field(name, label, type) == [name |-> name, label |-> label, type |-> type, required |-> TRUE]

paymentModeFields ==
    [mode \in paymentModes |->
        CASE mode = "Cash" ->
               << Field("cashReceivedBy", "Cash Received By", "text"),
                  Field("cashReceiptNumber", "Cash Receipt Number", "text") >>
          [] mode = "UPI" ->
               << Field("upiAppName", "UPI App Name", "picklist"),
                  Field("upiId", "UPI ID", "text"),
                  Field("nameOnUpi", "Name On UPI", "text") >>
          [] mode = "Card" ->
               << Field("cardHolderName", "Card Holder Name", "text"),
                  Field("cardNumber", "Card Number", "text"),
                  Field("cardType", "Card Type", "combobox") >>
          [] mode = "Bank Transfer" ->
               << Field("bankName", "Bank Name", "text"),
                  Field("ifscCode", "IFSC Code", "text"),
                  Field("bankAccountNumber", "Bank Account Number", "text") >>]

\* this.paymentModeFields[mode] || []
FieldsOf(mode) == IF mode \in DOMAIN paymentModeFields THEN paymentModeFields[mode] ELSE <<>>
FieldNames(mode) == {FieldsOf(mode)[i].name : i \in 1..Len(FieldsOf(mode))}

\* the keys under which handleSubmitPayment stores the generated reference
ReferenceKeys == {"upiReferenceNumber", "transactionId", "transactionReference", "cashReceiptNumber"}

\* ------------------------------------------------------------------------
\* Inputs: what the user, the clock, the random source and the server supply
\* ------------------------------------------------------------------------
Empty == <<>>

\* values of the amount input (event.detail.value of handleAmountChange)
AmountInputs ==
    { Empty,
      <<"0">>,
      <<"-", "1">>,
      <<"a", "b", "c">>,
      <<"1", "0", ".", "5", "0">>,
      <<"1", "0", ".", "5", "1">>,
      <<"1", "0", "0", "0", "0", "0", "0", "0", "0">> }

NoteInputs == { Empty, <<"n">> }

\* values typed into a text field
TextInputs(name) ==
    IF name = "bankName"
    THEN { Empty, <<"h", "d", "f", "c", " ", "b", "k">>, <<"A", "-", "B">> }
    ELSE { Empty, <<"x">> }

CardTypeInputs == { <<"V", "i", "s", "a">>, <<"M", "a", "s", "t", "e", "r", "C", "a", "r", "d">> }
UpiAppNameInputs == { <<"G", "P", "a", "y">> }

\* invoice records the server returns
Invoice(whole, frac) ==
    [ Id |-> "a01", AMERP_Customer__c |-> "001", hasOutstanding |-> TRUE,
      AMERP_Outstanding_Amount__c |-> Num(FALSE, whole, frac) ]
EmptyInvoice ==
    [ Id |-> "", AMERP_Customer__c |-> "", hasOutstanding |-> FALSE,
      AMERP_Outstanding_Amount__c |-> Zero ]
InvoiceInputs == { Invoice(10, 50), Invoice(100000000, 0) }

\* results the wire adapters deliver: data, error, or neither yet
InvoiceResults ==
    {[kind |-> "data", data |-> inv] : inv \in InvoiceInputs}
        \cup {[kind |-> k, data |-> EmptyInvoice] : k \in {"error", "pending"}}
HistoryResultKinds == {"data", "error", "pending"}

\* readings of new Date(): getDate, getMonth (0-based), getFullYear, getHours,
\* getMinutes, getSeconds, getMilliseconds
Clocks ==
    { [date |-> 5, month |-> 0, fullYear |-> 2026, hours |-> 9, minutes |-> 3,
       seconds |-> 7, milliseconds |-> 42],
      [date |-> 25, month |-> 11, fullYear |-> 2025, hours |-> 14, minutes |-> 30,
       seconds |-> 59, milliseconds |-> 123] }

\* the four values of Math.floor(Math.random() * chars.length)
Randoms == { <<0, 0, 0, 0>>, <<25, 26, 35, 7>> }

\* errors a remote call rejects with
Error(isString, hasBody, message, exceptionMessage) ==
    [ isString |-> isString, text |-> IF isString THEN "network down" ELSE "",
      hasBody |-> hasBody,
      body |-> [message |-> message, exceptionMessage |-> exceptionMessage] ]
Errors ==
    { Error(FALSE, TRUE, "Amount too large", ""),
      Error(FALSE, TRUE, "", "System.DmlException"),
      Error(TRUE, FALSE, "", ""),
      Error(FALSE, FALSE, "", "") }

\* values createInvoicePayment resolves with: a record id, or nothing
CreateResults == { "a02", "" }

\* ------------------------------------------------------------------------
\* State
\* ------------------------------------------------------------------------
VARIABLES
    invoiceData,                \* this.invoiceData
    wiredInvoiceResult,         \* NULL, or "result" once the wire has delivered
    wiredPaymentHistoryResult,  \* NULL, or "result" once the wire has delivered
    isLoading,
    isSaving,
    selectedPaymentMode,
    paymentAmount,
    paymentNote,
    showPaymentForm,
    formFields,                 \* field name -> string
    submissions,                \* suspended activations of handleSubmitPayment
    refreshes,                  \* suspended activations of handleRefreshData
    toasts,                     \* ShowToastEvents dispatched by the latest step
    createCalls,                \* createInvoicePayment calls made by the latest step
    finished                    \* the activations of handleSubmitPayment that
                                \* returned in the latest step

vars == << invoiceData, wiredInvoiceResult, wiredPaymentHistoryResult, isLoading,
           isSaving, selectedPaymentMode, paymentAmount, paymentNote,
           showPaymentForm, formFields, submissions, refreshes, toasts,
           createCalls, finished >>

formVars == << selectedPaymentMode, paymentAmount, paymentNote, showPaymentForm, formFields >>
dataVars == << invoiceData, wiredInvoiceResult, wiredPaymentHistoryResult >>

NoFields == [n \in {} |-> Empty]

\* an activation slot: where the handler is suspended, the toasts it has
\* shown so far, and the wires it has passed to refreshApex so far
\* (created: how the createInvoicePayment call of the activation settled;
\* refreshFailed: a refreshApex call of the activation rejected)
IdleSlot ==
    [pc |-> "idle", created |-> "none", shown |-> <<>>, refetched |-> {}, refreshFailed |-> FALSE]

Init ==
    /\ invoiceData = EmptyInvoice
    /\ wiredInvoiceResult = NULL
    /\ wiredPaymentHistoryResult = NULL
    /\ isLoading = FALSE
    /\ isSaving = FALSE
    /\ selectedPaymentMode = NULL
    /\ paymentAmount = NullString
    /\ paymentNote = Empty
    /\ showPaymentForm = FALSE
    /\ formFields = NoFields
    /\ submissions = [i \in 1..MaxInFlight |-> IdleSlot]
    /\ refreshes = [i \in 1..MaxRefreshInFlight |-> IdleSlot]
    /\ toasts = <<>>
    /\ createCalls = <<>>
    /\ finished = <<>>

\* ------------------------------------------------------------------------
\* Getters
\* ------------------------------------------------------------------------
\* this.invoiceData?.AMERP_Outstanding_Amount__c ?? 0
outstandingAmount ==
    IF invoiceData.hasOutstanding THEN invoiceData.AMERP_Outstanding_Amount__c ELSE Zero

\* x || 0 for a number x
OrZero(x) == IF x.nan \/ IsZero(x) THEN Zero ELSE x

\* isPayButtonDisabled without the saving flag
isPayButtonDisabled_ignoresSaving ==
    LET outstanding == OrZero(outstandingAmount)
        amount == OrZero(parseFloat(paymentAmount))
    IN  NumLeq(amount, Zero) \/ NumGreater(amount, outstanding)

\* parseFloat of a number: the number itself
isPayButtonDisabled ==
    LET outstanding == OrZero(outstandingAmount)
        amount == OrZero(parseFloat(paymentAmount))
    IN  NumLeq(amount, Zero) \/ NumGreater(amount, outstanding) \/ isSaving

currentModeFields == FieldsOf(selectedPaymentMode)

\* ------------------------------------------------------------------------
\* Toasts and error messages
\* ------------------------------------------------------------------------
Toast(title, message, variant) == [title |-> title, message |-> message, variant |-> variant]

getErrorMessage(error) ==
    IF error.hasBody /\ error.body.message # "" THEN error.body.message
    ELSE IF error.hasBody /\ error.body.exceptionMessage # "" THEN error.body.exceptionMessage
    ELSE IF error.isString THEN error.text
    ELSE "An error occurred"

\* ------------------------------------------------------------------------
\* validatePaymentForm: <<>> when the form is valid, otherwise the toast of
\* the first failing check
\* ------------------------------------------------------------------------
\* !value for a string-valued field: null, undefined and '' are falsy
Falsy(v) == v = NullString \/ v = Empty

\* this.formFields[name], undefined when the key is missing
FieldValue(fields, name) == IF name \in DOMAIN fields THEN fields[name] ELSE NullString

RECURSIVE FirstMissing(_, _, _)
FirstMissing(fields, defs, i) ==
    IF i > Len(defs) THEN 0
    ELSE IF defs[i].required /\ Falsy(FieldValue(fields, defs[i].name)) THEN i
    ELSE FirstMissing(fields, defs, i + 1)

\* validationToasts with >= for > in the check against the outstanding amount
validationToasts_rejectsEqual(amount, outstanding, mode, fields) ==
    IF Falsy(amount) \/ NumLeq(parseFloat(amount), Zero)
    THEN << Toast("Validation Error", "Please enter a valid amount", "error") >>
    ELSE IF ~NumLess(parseFloat(amount), OrZero(outstanding))
    THEN << Toast("Validation Error", "Payment amount cannot exceed outstanding amount", "error") >>
    ELSE LET defs == FieldsOf(mode)
             i == FirstMissing(fields, defs, 1)
         IN  IF i # 0
             THEN << Toast("Validation Error", defs[i].label \o " is required", "error") >>
             ELSE <<>>

\* validationToasts with the required fields checked before the outstanding amount
validationToasts_fieldsFirst(amount, outstanding, mode, fields) ==
    IF Falsy(amount) \/ NumLeq(parseFloat(amount), Zero)
    THEN << Toast("Validation Error", "Please enter a valid amount", "error") >>
    ELSE LET defs == FieldsOf(mode)
             i == FirstMissing(fields, defs, 1)
         IN  IF i # 0
             THEN << Toast("Validation Error", defs[i].label \o " is required", "error") >>
             ELSE IF NumGreater(parseFloat(amount), OrZero(outstanding))
             THEN << Toast("Validation Error", "Payment amount cannot exceed outstanding amount", "error") >>
             ELSE <<>>

validationToasts(amount, outstanding, mode, fields) ==
    IF Falsy(amount) \/ NumLeq(parseFloat(amount), Zero)
    THEN << Toast("Validation Error", "Please enter a valid amount", "error") >>
    ELSE IF NumGreater(parseFloat(amount), OrZero(outstanding))
    THEN << Toast("Validation Error", "Payment amount cannot exceed outstanding amount", "error") >>
    ELSE LET defs == FieldsOf(mode)
             i == FirstMissing(fields, defs, 1)
         IN  IF i # 0
             THEN << Toast("Validation Error", defs[i].label \o " is required", "error") >>
             ELSE <<>>

\* the two amount checks at the head of validatePaymentForm
amountChecksPass(amount, outstanding) ==
    /\ ~(Falsy(amount) \/ NumLeq(parseFloat(amount), Zero))
    /\ ~NumGreater(parseFloat(amount), OrZero(outstanding))

validatePaymentForm(amount, outstanding, mode, fields) ==
    validationToasts(amount, outstanding, mode, fields) = <<>>

\* ------------------------------------------------------------------------
\* Reference generator
\* ------------------------------------------------------------------------
Pad2(n) == padStart(NatToString(n), 2, "0")

\* `${day}${month}${year}`
dateStr(now) ==
    Pad2(now.date) \o Pad2(now.month + 1) \o sliceLast(NatToString(now.fullYear), 2)

\* `${hours}${minutes}${seconds}`
timeStr(now) == Pad2(now.hours) \o Pad2(now.minutes) \o Pad2(now.seconds)

\* String(Math.floor(amount)).padStart(8, '0')
amountStr(amount) == padStart(FloorString(amount), 8, "0")

chars == UpperChars \o DigitChars

\* String(milliseconds) + randomSuffix
uniqueId(now, rnd) ==
    padStart(NatToString(now.milliseconds), 3, "0") \o [i \in 1..4 |-> chars[rnd[i] + 1]]

\* `${prefix}-${dateStr}-${timeStr}-${amountStr}-${uniqueId}`
Reference(prefix, now, rnd, amount) ==
    prefix \o <<"-">> \o dateStr(now) \o <<"-">> \o timeStr(now) \o <<"-">>
        \o amountStr(amount) \o <<"-">> \o uniqueId(now, rnd)

\* (value || fallback).substring(0, 4).toUpperCase()
Prefix4(value, fallback) ==
    toUpperCase(substring0(IF Falsy(value) THEN fallback ELSE value, 4))

generateUpiReferenceNumber(amount, now, rnd) == Reference(<<"U", "P", "I">>, now, rnd, amount)

generateCardTransactionId(amount, fields, now, rnd) ==
    Reference(Prefix4(FieldValue(fields, "cardType"), <<"C", "A", "R", "D">>), now, rnd, amount)

generateBankTransactionId(amount, fields, now, rnd) ==
    Reference(Prefix4(FieldValue(fields, "bankName"), <<"B", "A", "N", "K">>), now, rnd, amount)

generateCashReceiptNumber(amount, now, rnd) == Reference(<<"C", "A", "S", "H">>, now, rnd, amount)

generateGenericTransactionId(amount, now, rnd) == Reference(<<"T", "X", "N">>, now, rnd, amount)

generateTransactionId(mode, amount, fields, now, rnd) ==
    CASE mode = "UPI" -> generateUpiReferenceNumber(amount, now, rnd)
      [] mode = "Card" -> generateCardTransactionId(amount, fields, now, rnd)
      [] mode = "Bank Transfer" -> generateBankTransactionId(amount, fields, now, rnd)
      [] mode = "Cash" -> generateCashReceiptNumber(amount, now, rnd)
      [] OTHER -> generateGenericTransactionId(amount, now, rnd)

\* new Date().toISOString().split('T')[0]
isoDate(now) ==
    NatToString(now.fullYear) \o <<"-">> \o Pad2(now.month + 1) \o <<"-">> \o Pad2(now.date)

\* ------------------------------------------------------------------------
\* Wire adapters
\* ------------------------------------------------------------------------
Quiet == toasts' = <<>> /\ createCalls' = <<>> /\ finished' = <<>>

wiredInvoice(result) ==
    /\ wiredInvoiceResult' = "result"
    /\ invoiceData' = IF result.kind = "data" THEN result.data
                      ELSE IF result.kind = "error" THEN EmptyInvoice
                      ELSE invoiceData
    /\ Quiet
    /\ UNCHANGED << wiredPaymentHistoryResult, isLoading, isSaving, formVars,
                    submissions, refreshes >>

\* (the list this.paymentHistory is display data and is not modelled)
wiredPaymentHistory(kind) ==
    /\ wiredPaymentHistoryResult' = "result"
    /\ Quiet
    /\ UNCHANGED << invoiceData, wiredInvoiceResult, isLoading, isSaving, formVars,
                    submissions, refreshes >>

\* ------------------------------------------------------------------------
\* Form handlers
\* ------------------------------------------------------------------------
\* handlePaymentModeSelect without this.formFields = {}: entered values stay
handlePaymentModeSelect_keepsValues(mode) ==
    /\ selectedPaymentMode' = mode
    /\ formFields' = [n \in FieldNames(mode) |-> IF n \in DOMAIN formFields THEN formFields[n] ELSE Empty]
    /\ showPaymentForm' = TRUE
    /\ Quiet
    /\ UNCHANGED << dataVars, isLoading, isSaving, paymentAmount, paymentNote,
                    submissions, refreshes >>

handlePaymentModeSelect(mode) ==
    /\ selectedPaymentMode' = mode
    /\ formFields' = [n \in FieldNames(mode) |-> Empty]
    /\ showPaymentForm' = TRUE
    /\ Quiet
    /\ UNCHANGED << dataVars, isLoading, isSaving, paymentAmount, paymentNote,
                    submissions, refreshes >>

handleAmountChange(value) ==
    /\ paymentAmount' = value
    /\ Quiet
    /\ UNCHANGED << dataVars, isLoading, isSaving, selectedPaymentMode, paymentNote,
                    showPaymentForm, formFields, submissions, refreshes >>

\* this.formFields[name] = value
SetField(name, value) ==
    /\ formFields' = (name :> value) @@ formFields
    /\ Quiet
    /\ UNCHANGED << dataVars, isLoading, isSaving, selectedPaymentMode, paymentAmount,
                    paymentNote, showPaymentForm, submissions, refreshes >>

\* the inputs the template renders: one per field of currentModeFields
Rendered(name) == \E i \in 1..Len(currentModeFields) : currentModeFields[i].name = name
RenderedText(name) ==
    \E i \in 1..Len(currentModeFields) :
        currentModeFields[i].name = name /\ currentModeFields[i].type = "text"

handleFieldChange(name, value) ==
    /\ RenderedText(name)
    /\ SetField(name, value)

handleCardTypeChange(value) ==
    /\ Rendered("cardType")
    /\ SetField("cardType", value)

handleUpiAppNameChange(value) ==
    /\ Rendered("upiAppName")
    /\ SetField("upiAppName", value)

handleNotesChange(value) ==
    /\ paymentNote' = value
    /\ Quiet
    /\ UNCHANGED << dataVars, isLoading, isSaving, selectedPaymentMode, paymentAmount,
                    showPaymentForm, formFields, submissions, refreshes >>

\* resetPaymentForm without this.formFields = {}
resetPaymentForm_keepsFields ==
    /\ selectedPaymentMode' = NULL
    /\ paymentAmount' = NullString
    /\ paymentNote' = Empty
    /\ formFields' = formFields
    /\ showPaymentForm' = FALSE

resetPaymentForm ==
    /\ selectedPaymentMode' = NULL
    /\ paymentAmount' = NullString
    /\ paymentNote' = Empty
    /\ formFields' = NoFields
    /\ showPaymentForm' = FALSE

\* ------------------------------------------------------------------------
\* refreshAllData: the wire passed to refreshApex next, or "return"
\* ------------------------------------------------------------------------
\* at the start of the try block
refreshAllDataStart ==
    IF wiredInvoiceResult # NULL THEN "awaitRefreshInvoice"
    ELSE IF wiredPaymentHistoryResult # NULL THEN "awaitRefreshHistory"
    ELSE "return"

\* after the awaited refreshApex call settled (ok: resolved); a rejection
\* is caught and ends refreshAllData
refreshAllDataNext(pc, ok) ==
    IF pc = "awaitRefreshInvoice" /\ ok /\ wiredPaymentHistoryResult # NULL
    THEN "awaitRefreshHistory"
    ELSE "return"

\* the activation record once the handler is suspended at (or passed) pc
Advance(slot, pc) ==
    [slot EXCEPT !.pc = pc,
                 !.refetched = @ \cup (IF pc = "awaitRefreshInvoice" THEN {"invoice"}
                                       ELSE IF pc = "awaitRefreshHistory" THEN {"history"}
                                       ELSE {})]

Returned(handler, slot) ==
    << [handler |-> handler, created |-> slot.created, shown |-> slot.shown,
        refetched |-> slot.refetched, refreshFailed |-> slot.refreshFailed] >>

FreeSlot(slots) == CHOOSE i \in DOMAIN slots : slots[i].pc = "idle" /\ \A j \in 1..(i - 1) : slots[j].pc # "idle"
HasFreeSlot(slots) == \E i \in DOMAIN slots : slots[i].pc = "idle"

\* ------------------------------------------------------------------------
\* handleSubmitPayment
\* ------------------------------------------------------------------------
\* the key that receives the generated reference, by payment mode
referenceKey(mode) ==
    CASE mode = "UPI" -> "upiReferenceNumber"
      [] mode = "Card" -> "transactionId"
      [] mode = "Bank Transfer" -> "transactionReference"
      [] mode = "Cash" -> "cashReceiptNumber"
      [] OTHER -> ""

\* { ...this.formFields } with the reference stored under the key of the mode
formFieldsCopy(fields, mode, transactionId) ==
    IF referenceKey(mode) # "" THEN (referenceKey(mode) :> transactionId) @@ fields ELSE fields

\* the wrapper passed to createInvoicePayment; the spread of formFieldsCopy
\* comes last and so wins over the fixed keys
buildWrapper(transactionId, now) ==
    formFieldsCopy(formFields, selectedPaymentMode, transactionId) @@
        [ invoiceId |-> invoiceData.Id,
          customerId |-> invoiceData.AMERP_Customer__c,
          paymentAmount |-> parseFloat(paymentAmount),
          paymentDate |-> isoDate(now),
          paymentMode |-> selectedPaymentMode,
          paymentStatus |-> "Received",
          paymentNote |-> paymentNote ]

\* handleSubmitPayment with this.isSaving = true moved above the validation
submitRejected_setsSaving(validation) ==
    /\ toasts' = validation
    /\ createCalls' = <<>>
    /\ finished' = <<>>
    /\ isSaving' = TRUE
    /\ UNCHANGED << dataVars, isLoading, formVars, submissions, refreshes >>

\* validation failed: validatePaymentForm has shown its toast, the handler returns
submitRejected(validation) ==
    /\ toasts' = validation
    /\ createCalls' = <<>>
    /\ finished' = <<>>
    /\ UNCHANGED << dataVars, isLoading, isSaving, formVars, submissions, refreshes >>

\* validation passed: the handler runs up to await createInvoicePayment
submitAccepted(now, rnd) ==
    LET transactionId == generateTransactionId(selectedPaymentMode, parseFloat(paymentAmount),
                                               formFields, now, rnd)
    IN  /\ HasFreeSlot(submissions)
        /\ isSaving' = TRUE
        /\ createCalls' = << [wrapper |-> buildWrapper(transactionId, now),
                              transactionId |-> transactionId] >>
        /\ submissions' = [submissions EXCEPT ![FreeSlot(submissions)] =
                              [IdleSlot EXCEPT !.pc = "awaitCreate", !.created = "pending"]]
        /\ toasts' = <<>>
        /\ finished' = <<>>
        /\ UNCHANGED << dataVars, isLoading, formVars, refreshes >>

handleSubmitPayment ==
    LET validation == validationToasts(paymentAmount, outstandingAmount,
                                       selectedPaymentMode, formFields)
    IN  IF validation # <<>>
        THEN submitRejected(validation)
        ELSE \E now \in Clocks, rnd \in Randoms : submitAccepted(now, rnd)

\* the finally block of the activation in slot i, which returns as `slot`
submitFinally(i, slot) ==
    /\ isSaving' = FALSE
    /\ submissions' = [submissions EXCEPT ![i] = IdleSlot]
    /\ finished' = Returned("handleSubmitPayment", slot)

\* createSucceeded without the await on refreshAllData: the finally block
\* clears isSaving while the re-fetch is still running
createSucceeded_doesNotAwaitRefresh(i) ==
    LET success == Toast("Success", "Payment recorded successfully", "success")
        slot == Advance([submissions[i] EXCEPT !.created = "resolved", !.shown = <<success>>],
                        refreshAllDataStart)
    IN  /\ toasts' = <<success>>
        /\ resetPaymentForm
        /\ createCalls' = <<>>
        /\ IF slot.pc = "return"
           THEN submitFinally(i, slot)
           ELSE /\ submissions' = [submissions EXCEPT ![i] = slot]
                /\ finished' = <<>>
                /\ isSaving' = FALSE
        /\ UNCHANGED << dataVars, isLoading, refreshes >>

\* createInvoicePayment resolved with a truthy result
createSucceeded(i) ==
    LET success == Toast("Success", "Payment recorded successfully", "success")
        slot == Advance([submissions[i] EXCEPT !.created = "resolved", !.shown = <<success>>],
                        refreshAllDataStart)
    IN  /\ toasts' = <<success>>
        /\ resetPaymentForm
        /\ createCalls' = <<>>
        /\ IF slot.pc = "return"
           THEN submitFinally(i, slot)
           ELSE /\ submissions' = [submissions EXCEPT ![i] = slot]
                /\ finished' = <<>>
                /\ UNCHANGED isSaving
        /\ UNCHANGED << dataVars, isLoading, refreshes >>

\* createInvoicePayment resolved with a falsy result: the if is skipped
createReturnedNothing(i) ==
    /\ toasts' = <<>>
    /\ createCalls' = <<>>
    /\ submitFinally(i, [submissions[i] EXCEPT !.created = "resolved"])
    /\ UNCHANGED << dataVars, isLoading, formVars, refreshes >>

createInvoicePaymentResolved(i, result) ==
    /\ submissions[i].pc = "awaitCreate"
    /\ IF result # "" THEN createSucceeded(i) ELSE createReturnedNothing(i)

\* the catch block with the form reset of the success path
catchBlock_resetsForm(i, error) ==
    LET toast == Toast("Error", getErrorMessage(error), "error")
    IN  /\ toasts' = <<toast>>
        /\ createCalls' = <<>>
        /\ resetPaymentForm
        /\ submitFinally(i, [submissions[i] EXCEPT !.created = "rejected", !.shown = <<toast>>])
        /\ UNCHANGED << dataVars, isLoading, refreshes >>

\* createInvoicePayment rejected: the catch block, then the finally block
catchBlock(i, error) ==
    LET toast == Toast("Error", getErrorMessage(error), "error")
    IN  /\ toasts' = <<toast>>
        /\ createCalls' = <<>>
        /\ submitFinally(i, [submissions[i] EXCEPT !.created = "rejected", !.shown = <<toast>>])
        /\ UNCHANGED << dataVars, isLoading, formVars, refreshes >>

createInvoicePaymentRejected(i, error) ==
    /\ submissions[i].pc = "awaitCreate"
    /\ catchBlock(i, error)

\* a refreshApex call awaited by refreshAllData inside handleSubmitPayment settled
submitRefreshSettled(i, ok) ==
    LET cur == submissions[i]
        slot == Advance([cur EXCEPT !.refreshFailed = @ \/ ~ok], refreshAllDataNext(cur.pc, ok))
    IN  /\ cur.pc \in {"awaitRefreshInvoice", "awaitRefreshHistory"}
        /\ toasts' = <<>>
        /\ createCalls' = <<>>
        /\ IF slot.pc = "return"
           THEN submitFinally(i, slot)
           ELSE /\ submissions' = [submissions EXCEPT ![i] = slot]
                /\ finished' = <<>>
                /\ UNCHANGED isSaving
        /\ UNCHANGED << dataVars, isLoading, formVars, refreshes >>

\* the click on the pay button, which the template disables by isPayButtonDisabled
payButtonClick ==
    /\ ~isPayButtonDisabled
    /\ handleSubmitPayment

\* ------------------------------------------------------------------------
\* handleRefreshData
\* ------------------------------------------------------------------------
\* refreshAllData returned to handleRefreshData: the success toast, then finally
refreshReturned(i, slot) ==
    LET success == Toast("Success", "Data refreshed successfully", "success")
    IN  /\ toasts' = <<success>>
        /\ createCalls' = <<>>
        /\ isLoading' = FALSE
        /\ refreshes' = [refreshes EXCEPT ![i] = IdleSlot]
        /\ finished' = Returned("handleRefreshData", [slot EXCEPT !.shown = <<success>>])

handleRefreshData ==
    /\ HasFreeSlot(refreshes)
    /\ LET i == FreeSlot(refreshes)
           slot == Advance(IdleSlot, refreshAllDataStart)
       IN  IF slot.pc = "return"
           THEN refreshReturned(i, slot)
           ELSE /\ isLoading' = TRUE
                /\ refreshes' = [refreshes EXCEPT ![i] = slot]
                /\ Quiet
    /\ UNCHANGED << dataVars, isSaving, formVars, submissions >>

refreshSettled(i, ok) ==
    LET cur == refreshes[i]
        slot == Advance([cur EXCEPT !.refreshFailed = @ \/ ~ok], refreshAllDataNext(cur.pc, ok))
    IN  /\ cur.pc \in {"awaitRefreshInvoice", "awaitRefreshHistory"}
        /\ IF slot.pc = "return"
           THEN refreshReturned(i, slot)
           ELSE /\ refreshes' = [refreshes EXCEPT ![i] = slot]
                /\ Quiet
                /\ UNCHANGED isLoading
        /\ UNCHANGED << dataVars, isSaving, formVars, submissions >>

\* ------------------------------------------------------------------------
\* Specifications
\* ------------------------------------------------------------------------
UserEdits ==
    \/ \E mode \in paymentModes : handlePaymentModeSelect(mode)
    \/ \E value \in AmountInputs : handleAmountChange(value)
    \/ \E name \in UNION {FieldNames(m) : m \in paymentModes} :
          \E value \in TextInputs(name) : handleFieldChange(name, value)
    \/ \E value \in CardTypeInputs : handleCardTypeChange(value)
    \/ \E value \in UpiAppNameInputs : handleUpiAppNameChange(value)
    \/ \E value \in NoteInputs : handleNotesChange(value)

Remote ==
    \/ \E result \in InvoiceResults : wiredInvoice(result)
    \/ \E kind \in HistoryResultKinds : wiredPaymentHistory(kind)
    \/ \E i \in 1..MaxInFlight, result \in CreateResults : createInvoicePaymentResolved(i, result)
    \/ \E i \in 1..MaxInFlight, error \in Errors : createInvoicePaymentRejected(i, error)
    \/ \E i \in 1..MaxInFlight, ok \in BOOLEAN : submitRefreshSettled(i, ok)

\* the payment form as the page drives it: submissions come from the pay button
Next ==
    \/ UserEdits
    \/ payButtonClick
    \/ Remote

Spec == Init /\ [][Next]_vars

\* the refresh button.  handleRefreshData reads the two wire results and
\* writes isLoading only, and the payment form reads and writes neither
\* isLoading nor the activations of handleRefreshData, so the button is
\* specified apart from the form.
NextRefresh ==
    \/ \E result \in InvoiceResults : wiredInvoice(result)
    \/ \E kind \in HistoryResultKinds : wiredPaymentHistory(kind)
    \/ \E value \in AmountInputs : handleAmountChange(value)
    \/ handleRefreshData
    \/ \E i \in 1..MaxRefreshInFlight, ok \in BOOLEAN : refreshSettled(i, ok)

SpecRefresh == Init /\ [][NextRefresh]_vars

\* the submit handler applied to every state of the form: the fields of the
\* form hold what the handlers above can leave there
FormStates ==
    {f \in [mode : paymentModes \cup {NULL}, amount : AmountInputs \cup {NullString},
            note : NoteInputs, invoice : InvoiceInputs \cup {EmptyInvoice}] : TRUE}

FieldInputs(name) ==
    IF name = "cardType" THEN CardTypeInputs \cup {Empty}
    ELSE IF name = "upiAppName" THEN UpiAppNameInputs \cup {Empty}
    ELSE TextInputs(name)

InitForm ==
    /\ \E f \in FormStates :
          /\ selectedPaymentMode = f.mode
          /\ paymentAmount = f.amount
          /\ paymentNote = f.note
          /\ invoiceData = f.invoice
          /\ showPaymentForm = (f.mode # NULL)
          /\ wiredInvoiceResult = IF f.invoice = EmptyInvoice THEN NULL ELSE "result"
    /\ formFields \in {g \in [FieldNames(selectedPaymentMode) -> UNION {FieldInputs(n) : n \in FieldNames(selectedPaymentMode)}] :
                          \A n \in DOMAIN g : g[n] \in FieldInputs(n)}
    /\ wiredPaymentHistoryResult = "result"
    /\ isLoading = FALSE
    /\ isSaving = FALSE
    /\ submissions = [i \in 1..MaxInFlight |-> IdleSlot]
    /\ refreshes = [i \in 1..MaxRefreshInFlight |-> IdleSlot]
    /\ toasts = <<>>
    /\ createCalls = <<>>
    /\ finished = <<>>

NextForm == handleSubmitPayment

SpecForm == InitForm /\ [][NextForm]_vars

\* ------------------------------------------------------------------------
\* Vocabulary of the properties
\* ------------------------------------------------------------------------
\* the required fields of each payment mode, as the form declares them
RequiredFieldNames(mode) ==
    CASE mode = "Cash" -> {"cashReceivedBy", "cashReceiptNumber"}
      [] mode = "UPI" -> {"upiAppName", "upiId", "nameOnUpi"}
      [] mode = "Card" -> {"cardHolderName", "cardNumber", "cardType"}
      [] mode = "Bank Transfer" -> {"bankName", "ifscCode", "bankAccountNumber"}
      [] OTHER -> {}

\* the latest step was a call of handleSubmitPayment that validation rejected
ValidationRejected == toasts # <<>> /\ toasts[1].title = "Validation Error"
\* the latest step was a call of handleSubmitPayment that called createInvoicePayment
SubmissionAccepted == createCalls # <<>>

\* the three grounds for rejecting a submission, on the current form
AmountAbsentOrNotPositive ==
    \/ paymentAmount \in {NullString, Empty}
    \/ LET a == parseFloat(paymentAmount) IN ~a.nan /\ (IsZero(a) \/ a.neg)
AmountAboveOutstanding ==
    LET a == parseFloat(paymentAmount)
        o == outstandingAmount
    IN  /\ ~a.nan
        /\ ~a.neg
        /\ \/ o.neg
           \/ a.whole > o.whole
           \/ (a.whole = o.whole /\ a.frac > o.frac)
SomeRequiredFieldEmpty ==
    \E n \in RequiredFieldNames(selectedPaymentMode) :
        n \notin DOMAIN formFields \/ formFields[n] = Empty

InFlightCreates == Cardinality({i \in DOMAIN submissions : submissions[i].pc = "awaitCreate"})

FormIsCleared ==
    /\ selectedPaymentMode = NULL
    /\ paymentAmount = NullString
    /\ paymentNote = Empty
    /\ formFields = NoFields
    /\ showPaymentForm = FALSE

\* the activations of handleSubmitPayment that returned in the latest step
SubmissionsFinished == {finished[k] : k \in {j \in 1..Len(finished) : finished[j].handler = "handleSubmitPayment"}}

SuccessToast == Toast("Success", "Payment recorded successfully", "success")
IsErrorToast(t) == t.title = "Error" /\ t.variant = "error"

\* ------------------------------------------------------------------------
\* C1  (checked under SpecForm)
\* ------------------------------------------------------------------------
\* C1: handleSubmitPayment's validation rejects a submission exactly when the
\* amount is absent or <= 0, or the amount is greater than the outstanding
\* amount, or a required field of the selected mode is empty; an amount equal
\* to the outstanding amount is accepted, one cent more is rejected.
C1_RejectsIffInvalid ==
    LET invalid == AmountAbsentOrNotPositive \/ AmountAboveOutstanding \/ SomeRequiredFieldEmpty
    IN  /\ ValidationRejected => invalid
        /\ SubmissionAccepted => ~invalid
        /\ ~(ValidationRejected /\ SubmissionAccepted)

\* an amount equal to the outstanding amount has been accepted
C1_Witness ==
    /\ SubmissionAccepted
    /\ selectedPaymentMode = "Card"
    /\ paymentAmount = <<"1", "0", ".", "5", "0">>
    /\ outstandingAmount = Num(FALSE, 10, 50)

\* ------------------------------------------------------------------------
\* C2  (checked under SpecForm)
\* ------------------------------------------------------------------------
\* C2: a call of handleSubmitPayment whose validation fails makes no
\* createInvoicePayment call, does not set isSaving, starts no activation
\* and leaves the mode, the amount, the note and the form fields as they were.
C2_RejectedSubmitChangesNothing ==
    [][ValidationRejected' =>
            /\ createCalls' = <<>>
            /\ ~isSaving'
            /\ isSaving' = isSaving
            /\ submissions' = submissions
            /\ UNCHANGED formVars]_vars

\* mode UPI, amount above the outstanding amount: the validation toast is shown
C2_Witness ==
    /\ ValidationRejected
    /\ toasts[1].message = "Payment amount cannot exceed outstanding amount"
    /\ selectedPaymentMode = "UPI"
    /\ ~SomeRequiredFieldEmpty
    /\ createCalls = <<>>

C4_SuccessRefetchesBoth ==
    /\ SuccessToast \in Range(toasts) => FormIsCleared
    /\ \A f \in SubmissionsFinished :
          f.shown = <<SuccessToast>> => f.refetched = {"invoice", "history"}

\* ------------------------------------------------------------------------
\* C5
\* ------------------------------------------------------------------------
\* C5: when createInvoicePayment rejects, the step shows exactly one error
\* toast (the only toast of that submission), makes no createInvoicePayment
\* call and leaves the mode, the amount, the note and the form fields
\* unchanged; the step that made the call made exactly one call and left
\* them unchanged too.
C5_FailureReportedOnceFormKept ==
    [][ /\ (\E f \in SubmissionsFinished' : f.created = "rejected") =>
              /\ Len(toasts') = 1
              /\ IsErrorToast(toasts'[1])
              /\ \A f \in SubmissionsFinished' : f.shown = toasts'
              /\ createCalls' = <<>>
              /\ InFlightCreates' = InFlightCreates - 1
              /\ UNCHANGED formVars
        /\ SubmissionAccepted' =>
              /\ Len(createCalls') = 1
              /\ InFlightCreates' = InFlightCreates + 1
              /\ UNCHANGED formVars ]_vars

\* a Cash payment failed; the receipt number the user entered is still there
C5_Witness ==
    /\ \E f \in SubmissionsFinished : f.created = "rejected"
    /\ selectedPaymentMode = "Cash"
    /\ formFields["cashReceiptNumber"] = <<"x">>
    /\ paymentAmount = <<"1", "0", ".", "5", "0">>
    /\ paymentNote = <<"n">>

\* ------------------------------------------------------------------------
\* C6
\* ------------------------------------------------------------------------
\* C6: a submission that entered the saving state leaves it by exactly one of
\* two exits: the success toast was shown, or an error toast was shown.
C6_ExitIsSuccessOrFailure ==
    \A f \in SubmissionsFinished :
        \/ f.shown = <<SuccessToast>>
        \/ (Len(f.shown) = 1 /\ IsErrorToast(f.shown[1]))

C8_ModeSelectResetsFields ==
    [][\A mode \in paymentModes :
          handlePaymentModeSelect(mode) =>
              /\ DOMAIN formFields' = RequiredFieldNames(mode)
              /\ \A n \in DOMAIN formFields' : formFields'[n] = Empty
              /\ selectedPaymentMode' = mode
              /\ paymentAmount' = paymentAmount
              /\ paymentNote' = paymentNote]_vars

\* a mode was selected after the amount and the note had been entered
C8_Witness ==
    /\ selectedPaymentMode = "Bank Transfer"
    /\ DOMAIN formFields = RequiredFieldNames("Bank Transfer")
    /\ \A n \in DOMAIN formFields : formFields[n] = Empty
    /\ paymentAmount = <<"1", "0", ".", "5", "0">>
    /\ paymentNote = <<"n">>
    /\ showPaymentForm

\* ------------------------------------------------------------------------
\* C9
\* ------------------------------------------------------------------------
\* C9: every payload passed to createInvoicePayment has a payment mode of
\* the four modes, status 'Received', and exactly one of the four reference
\* fields, the one of its mode, holding the generated reference.
C9_PayloadHasModeAndOneReference ==
    \A k \in 1..Len(createCalls) :
        LET w == createCalls[k].wrapper
        IN  /\ w["paymentMode"] \in {"Cash", "UPI", "Card", "Bank Transfer"}
            /\ w["paymentStatus"] = "Received"
            /\ ReferenceKeys \cap DOMAIN w =
                  { CASE w["paymentMode"] = "UPI" -> "upiReferenceNumber"
                      [] w["paymentMode"] = "Card" -> "transactionId"
                      [] w["paymentMode"] = "Bank Transfer" -> "transactionReference"
                      [] OTHER -> "cashReceiptNumber" }
            /\ \A key \in ReferenceKeys \cap DOMAIN w : w[key] = createCalls[k].transactionId

\* ------------------------------------------------------------------------
\* C10
\* ------------------------------------------------------------------------
RECURSIVE Split(_, _)
Split(s, c) ==
    IF c \notin Range(s) THEN <<s>>
    ELSE LET i == CHOOSE j \in 1..Len(s) : s[j] = c /\ \A h \in 1..(j - 1) : s[h] # c
         IN  <<SubSeq(s, 1, i - 1)>> \o Split(SubSeq(s, i + 1, Len(s)), c)

AllDigits(s) == \A i \in 1..Len(s) : IsDigit(s[i])

\* the prefix the reference of a payload should carry
ExpectedPrefix(w) ==
    CASE w["paymentMode"] = "Cash" -> <<"C", "A", "S", "H">>
      [] w["paymentMode"] = "UPI" -> <<"U", "P", "I">>
      [] w["paymentMode"] = "Card" -> toUpperCase(substring0(w["cardType"], 4))
      [] w["paymentMode"] = "Bank Transfer" -> toUpperCase(substring0(w["bankName"], 4))
      [] OTHER -> <<"T", "X", "N">>

\* C10: every generated reference splits on '-' into exactly 5 segments: the
\* prefix of its mode, 6 digits, 6 digits, exactly 8 digits whose value is
\* floor(amount), and 3 digits followed by 4 characters of [0-9A-Z].
C10_ReferenceShape ==
    \A k \in 1..Len(createCalls) :
        LET w == createCalls[k].wrapper
            segs == Split(createCalls[k].transactionId, "-")
        IN  /\ Len(segs) = 5
            /\ segs[1] = ExpectedPrefix(w)
            /\ Len(segs[2]) = 6 /\ AllDigits(segs[2])
            /\ Len(segs[3]) = 6 /\ AllDigits(segs[3])
            /\ Len(segs[4]) = 8 /\ AllDigits(segs[4])
            /\ ~w["paymentAmount"].nan /\ DigitsToNat(segs[4]) = w["paymentAmount"].whole
            /\ Len(segs[5]) = 7
            /\ AllDigits(SubSeq(segs[5], 1, 3))
            /\ \A i \in 4..7 : segs[5][i] \in Range(DigitChars) \cup Range(UpperChars)

\* ------------------------------------------------------------------------
\* C11  (checked under SpecForm)
\* ------------------------------------------------------------------------
\* the required fields of the selected mode that are empty, by their position
\* in the declared order of the mode
EmptyRequiredPositions ==
    {i \in 1..Len(currentModeFields) :
        LET n == currentModeFields[i].name
        IN  n \notin DOMAIN formFields \/ formFields[n] \in {Empty, NullString}}

\* C11: a rejected call of handleSubmitPayment shows exactly one toast, titled
\* 'Validation Error', whose message is that of the first failing check in
\* the order: amount absent or <= 0, amount above the outstanding amount,
\* first empty required field in the declared order of the mode; the message
\* tells which of the three kinds of failure it was; an accepted call shows
\* none.
C11_FirstFailingCheckOnly ==
    /\ ValidationRejected =>
          /\ Len(toasts) = 1
          /\ toasts[1].variant = "error"
          /\ IF AmountAbsentOrNotPositive
             THEN toasts[1].message = "Please enter a valid amount"
             ELSE IF AmountAboveOutstanding
             THEN toasts[1].message = "Payment amount cannot exceed outstanding amount"
             ELSE /\ EmptyRequiredPositions # {}
                  /\ \E i \in EmptyRequiredPositions :
                        /\ \A h \in EmptyRequiredPositions : i <= h
                        /\ toasts[1].message = currentModeFields[i].label \o " is required"
          /\ (toasts[1].message = "Please enter a valid amount") = AmountAbsentOrNotPositive
          /\ (toasts[1].message = "Payment amount cannot exceed outstanding amount")
                = (~AmountAbsentOrNotPositive /\ AmountAboveOutstanding)
    /\ SubmissionAccepted => toasts = <<>>

\* a Card payment above the outstanding amount with two empty fields: only
\* the message about the outstanding amount is shown
C11_Witness ==
    /\ ValidationRejected
    /\ selectedPaymentMode = "Card"
    /\ AmountAboveOutstanding
    /\ Cardinality(EmptyRequiredPositions) >= 2
    /\ toasts = << Toast("Validation Error", "Payment amount cannot exceed outstanding amount", "error") >>

\* ------------------------------------------------------------------------
\* C12  (checked under SpecRefresh)
\* ------------------------------------------------------------------------
\* the activations of handleRefreshData that returned in the latest step
RefreshesFinished == {finished[k] : k \in {j \in 1..Len(finished) : finished[j].handler = "handleRefreshData"}}

RefreshInProgress == \E i \in DOMAIN refreshes : refreshes[i].pc # "idle"

\* C12: a refresh started by handleRefreshData in which a refreshApex call
\* rejected ends with the one error toast 'Failed to refresh data' and no
\* success toast; one in which none rejected ends with the one success toast
\* 'Data refreshed successfully'; isLoading is true while the refresh is in
\* progress and false once the handler has finished.
C12_RefreshFailureReported ==
    /\ \A f \in RefreshesFinished :
          f.shown = IF f.refreshFailed
                    THEN << Toast("Error", "Failed to refresh data", "error") >>
                    ELSE << Toast("Success", "Data refreshed successfully", "success") >>
    /\ RefreshInProgress => isLoading
    /\ RefreshesFinished # {} => ~isLoading

\* ------------------------------------------------------------------------
\* C13
\* ------------------------------------------------------------------------
\* the activation in slot i is suspended in the re-fetch after a success
RefetchPending(i) == submissions[i].pc \in {"awaitRefreshInvoice", "awaitRefreshHistory"}

\* C13: on the success path the events come in the order create call
\* resolves, success toast and form reset (one step), invoice refresh,
\* history refresh, isSaving = false: while the re-fetch is pending isSaving
\* is true and the pay button disabled, the history refresh starts only after
\* the invoice refresh resolved, and isSaving is cleared only in the step in
\* which the activation returns, after the re-fetch finished or failed.
C13_SavingUntilRefetchDone ==
  /\ [](\A i \in DOMAIN submissions : RefetchPending(i) => isSaving /\ isPayButtonDisabled)
  /\
    [][ /\ \A i \in DOMAIN submissions :
              /\ RefetchPending(i)' =>
                    /\ isSaving'
                    /\ submissions'[i].created = "resolved"
                    /\ submissions'[i].shown = <<SuccessToast>>
                    /\ ~submissions'[i].refreshFailed
              /\ submissions'[i].pc = "awaitRefreshInvoice" =>
                    /\ submissions[i].pc = "awaitCreate" \/ UNCHANGED submissions
                    /\ submissions'[i].refetched = {"invoice"}
              /\ submissions'[i].pc = "awaitRefreshHistory" =>
                    /\ submissions[i].pc = "awaitRefreshInvoice" \/ UNCHANGED submissions
                    /\ submissions'[i].refetched = {"invoice", "history"}
        /\ SuccessToast \in Range(toasts') =>
              /\ \E i \in DOMAIN submissions :
                    submissions[i].pc = "awaitCreate" /\ RefetchPending(i)'
              /\ FormIsCleared'
              /\ isSaving /\ isSaving'
        /\ (isSaving /\ ~isSaving') =>
              /\ Cardinality(SubmissionsFinished') = 1
              /\ \A i \in DOMAIN submissions : submissions'[i].pc = "idle"
              /\ \A f \in SubmissionsFinished' :
                    f.shown = <<SuccessToast>> =>
                       /\ \E i \in DOMAIN submissions : RefetchPending(i)
                       /\ "invoice" \in f.refetched
                       /\ \/ f.refreshFailed
                          \/ "history" \in f.refetched
                          \/ wiredPaymentHistoryResult = NULL
        /\ (~isSaving /\ isSaving') => SubmissionAccepted' ]_vars

\* the history refresh is pending and the user has already entered a new
\* valid amount: only the saving flag keeps the pay button disabled
C13_Witness ==
    /\ \E i \in DOMAIN submissions : submissions[i].pc = "awaitRefreshHistory"
    /\ isSaving
    /\ ~isPayButtonDisabled_ignoresSaving
    /\ isPayButtonDisabled

\* ------------------------------------------------------------------------
\* C14
\* ------------------------------------------------------------------------
\* C14: whenever isSaving is false, the pay button is enabled exactly when
\* the two amount checks of validatePaymentForm pass, for every amount
\* (empty, null, zero, negative, non-numeric) and with or without an invoice.
C14_GateAgreesWithValidator ==
    ~isSaving => (~isPayButtonDisabled <=> amountChecksPass(paymentAmount, outstandingAmount))

====
